---- MODULE Spec2Model ----
(***************************************************************************)
(* A model of the segmented write-ahead log of MilosSimic/wal: the record  *)
(* codec (Process / convert), the segment directory (Open, getLastSegment, *)
(* findSegment, newSegment), the read path with its cache, Set/Update and  *)
(* the retention sweep (cleanLog).  The disk is a map from file names to   *)
(* byte sequences; a file name <20 digits>[_END].wal is a record of its    *)
(* digits and whether it carries the _END marker.                          *)
(***************************************************************************)
EXTENDS Integers, Sequences, FiniteSets, TLC

(* ------------------------------ bounds -------------------------------- *)

\* newSegment is not taken once it would create an index above MaxIndex.
MaxIndex == 3
\* NewWAL draws lowMark from 0..MaxLowMark.
MaxLowMark == 1
\* The codec is applied to streams of at most MaxRecs records.
MaxRecs == 2
\* Of the two concurrent callers of Set, the second does not take newSegment
\* once it would create an index above MaxSecond.
MaxSecond == 2
\* The concurrent specifications draw lowMark from 0..MaxConcLowMark.
MaxConcLowMark == 0
\* A word of memory behind a backing array that no store of the program has
\* written holds nil or a pointer to one of the first MaxStale Segments.
MaxStale == 1

(* ------------------------- program constants -------------------------- *)

T_SIZE == 8
C_SIZE == 4
CRC_SIZE == T_SIZE + C_SIZE
TOMBSTONE_SIZE == CRC_SIZE + 1
KEY_SIZE == TOMBSTONE_SIZE + T_SIZE
VALUE_SIZE == KEY_SIZE + T_SIZE
\* len("00000000000000000000"), the width temp[len(temp)-20:] keeps.
NAME_WIDTH == 20
\* The capacity main() gives the read cache.
CACHE_CAP == 10

(* ------------------------------ bytes --------------------------------- *)

Byte == 0..255

RECURSIVE Pow(_, _)
Pow(b, e) == IF e = 0 THEN 1 ELSE b * Pow(b, e - 1)

\* binary.LittleEndian.PutUint64 / PutUint32 of a value below 2^31: the
\* bytes above the fourth are zero.
PutUint(n, width) ==
    [i \in 1..width |-> IF i <= 4 THEN (n \div Pow(256, i - 1)) % 256 ELSE 0]

\* binary.LittleEndian.Uint64 of eight bytes.  The 64-bit value is held as its
\* four 16-bit words, least significant first: the value is
\* u[1] + 2^16 * u[2] + 2^32 * u[3] + 2^48 * u[4].
Uint64(bs) ==
    <<bs[1] + 256 * bs[2], bs[3] + 256 * bs[4], bs[5] + 256 * bs[6], bs[7] + 256 * bs[8]>>

\* The 64-bit value is below 2^31.
Below31(u) == u[3] = 0 /\ u[4] = 0 /\ u[2] < 32768

\* A 64-bit value below 2^31 as a number.
Number(u) == u[1] + 65536 * u[2]

\* data[from:to] of Go, 0-based, `to` exclusive.
Slice(data, from, to) == [i \in 1..(to - from) |-> data[from + i]]

(* ------------------------------ CRC-32 -------------------------------- *)

\* The exclusive or of two bytes.
RECURSIVE XorByte(_, _)
XorByte(a, b) ==
    IF a = 0 THEN b
    ELSE IF b = 0 THEN a
    ELSE ((a + b) % 2) + 2 * XorByte(a \div 2, b \div 2)

\* A 32-bit register is its four bytes, least significant first.
Xor32(r, s) == <<XorByte(r[1], s[1]), XorByte(r[2], s[2]), XorByte(r[3], s[3]), XorByte(r[4], s[4])>>

ShiftRight1(r) ==
    <<(r[1] \div 2) + 128 * (r[2] % 2), (r[2] \div 2) + 128 * (r[3] % 2),
      (r[3] \div 2) + 128 * (r[4] % 2), r[4] \div 2>>

\* The reflected IEEE polynomial 0xEDB88320.
IEEEPoly == <<32, 131, 184, 237>>

RECURSIVE CrcRounds(_, _)
CrcRounds(reg, k) ==
    IF k = 0 THEN reg
    ELSE CrcRounds(IF reg[1] % 2 = 1 THEN Xor32(ShiftRight1(reg), IEEEPoly)
                                     ELSE ShiftRight1(reg), k - 1)

\* The table of crc32.IEEETable: entry b is eight rounds on the register b.
IEEETable == [b \in 0..255 |-> CrcRounds(<<b, 0, 0, 0>>, 8)]

\* crc = IEEETable[byte(crc) ^ b] ^ (crc >> 8)
CrcByte(reg, b) == Xor32(IEEETable[XorByte(reg[1], b)], <<reg[2], reg[3], reg[4], 0>>)

RECURSIVE CrcFold(_, _, _)
CrcFold(reg, data, i) ==
    IF i > Len(data) THEN reg ELSE CrcFold(CrcByte(reg, data[i]), data, i + 1)

\* crc32.ChecksumIEEE, as the four little-endian bytes of the checksum.
CRC32(data) == Xor32(CrcFold(<<255, 255, 255, 255>>, data, 1), <<255, 255, 255, 255>>)

(* ------------------------------ codec --------------------------------- *)

\* Process with the value laid out before the key.
ProcessValueFirst(key, value, deleted, sec) ==
    CRC32(value) \o PutUint(sec, T_SIZE) \o <<IF deleted THEN 1 ELSE 0>>
        \o PutUint(Len(key), T_SIZE) \o PutUint(Len(value), T_SIZE) \o value \o key

\* Process: the encoding of one record, `sec` being time.Now().Unix().
Process(key, value, deleted, sec) ==
    CRC32(value) \o PutUint(sec, T_SIZE) \o <<IF deleted THEN 1 ELSE 0>>
        \o PutUint(Len(key), T_SIZE) \o PutUint(Len(value), T_SIZE) \o key \o value

\* A []byte of Go: `array` holds the bytes of the backing array from the
\* start of the slice to its capacity, `len` is the length of the slice.
MakeSlice(bytes, capacity) ==
    [array |-> [k \in 1..capacity |-> IF k <= Len(bytes) THEN bytes[k] ELSE 0],
     len |-> Len(bytes)]

\* The bytes of a slice, and a slice over exactly these bytes (cap = len).
Bytes(data) == SubSeq(data.array, 1, data.len)
Exact(bytes) == MakeSlice(bytes, Len(bytes))

\* data[:n]: the same backing array, the capacity kept.
Reslice(data, n) == [data EXCEPT !.len = n]

\* The allocation sizes of the Go runtime that append rounds a capacity up to.
SizeClasses == <<8, 16, 24, 32, 48, 64, 80, 96, 112, 128, 144, 160, 176, 192, 208, 224,
                 240, 256>>

RECURSIVE RoundUpFrom(_, _)
RoundUpFrom(n, k) ==
    IF k > Len(SizeClasses) THEN n
    ELSE IF n <= SizeClasses[k] THEN SizeClasses[k] ELSE RoundUpFrom(n, k + 1)

\* append on a slice of capacity `capacity` that needs room for `needed`
\* elements of `elem` bytes each: the capacity stays when it is enough, else
\* it doubles (or becomes `needed`, when doubling is not enough) and the
\* allocation is rounded up.
growslice(capacity, needed, elem) ==
    IF needed <= capacity THEN capacity
    ELSE RoundUpFrom(elem * (IF needed > 2 * capacity THEN needed ELSE 2 * capacity), 1)
             \div elem

\* convert: the loop over the byte stream.  The loop runs while i < len(data);
\* a slice expression data[a:b] panics when b is beyond the capacity of data,
\* the index expression data[i+CRC_SIZE] when it is at or beyond its length,
\* and on a panic the call returns nothing.  Bytes between the length and the
\* capacity are read like any others.  i, key_size and value_size are uint64:
\* a size of 2^31 or more puts the end of the key or of the value past the
\* capacity, or wraps it round to below its start, and the slice expression
\* panics either way.
RECURSIVE ConvertFrom(_, _, _)
ConvertFrom(data, i, rez) ==
    IF i >= data.len THEN [panic |-> FALSE, entries |-> rez]
    ELSE IF i + VALUE_SIZE > Len(data.array) \/ i + CRC_SIZE >= data.len
    THEN [panic |-> TRUE, entries |-> <<>>]
    ELSE LET crc        == Slice(data.array, i, i + C_SIZE)
             timestamp  == Uint64(Slice(data.array, i + C_SIZE, i + CRC_SIZE))
             tombstone  == data.array[i + CRC_SIZE + 1]
             key_size   == Uint64(Slice(data.array, i + TOMBSTONE_SIZE, i + KEY_SIZE))
             value_size == Uint64(Slice(data.array, i + KEY_SIZE, i + VALUE_SIZE))
         IN  IF \/ ~Below31(key_size) \/ Number(key_size) > Len(data.array)
                \/ ~Below31(value_size) \/ Number(value_size) > Len(data.array)
                \/ i + VALUE_SIZE + Number(key_size) + Number(value_size) > Len(data.array)
             THEN [panic |-> TRUE, entries |-> <<>>]
             ELSE LET ks == Number(key_size)
                      vs == Number(value_size)
                  IN  ConvertFrom(data, i + VALUE_SIZE + ks + vs,
                          Append(rez, [Crc       |-> crc,
                                       Timestamp |-> timestamp,
                                       Deleted   |-> (tombstone = 1),
                                       Key       |-> Slice(data.array, i + VALUE_SIZE,
                                                           i + VALUE_SIZE + ks),
                                       Value     |-> Slice(data.array, i + VALUE_SIZE + ks,
                                                           i + VALUE_SIZE + ks + vs)]))

convert(data) == ConvertFrom(data, 0, <<>>)

(* ---------------------------- file names ------------------------------ *)

RECURSIVE Digits(_)
\* The decimal digits %d prints for a non-negative index.
Digits(n) == IF n < 10 THEN <<n>> ELSE Append(Digits(n \div 10), n % 10)

\* fmt.Sprintf(FORMAT_NAME, index) cut to its last 20 characters.
FormatStem(index) ==
    LET temp == [i \in 1..NAME_WIDTH |-> 0] \o Digits(index)
    IN  SubSeq(temp, Len(temp) - NAME_WIDTH + 1, Len(temp))

\* <stem>_END.wal, the name newSegment builds for a new tail.
TailName(index) == [stem |-> FormatStem(index), end |-> TRUE]

\* strings.Replace(prevTail, END_EXT, "", -1)
RegularPath(name) == [name EXCEPT !.end = FALSE]

RECURSIVE ParseFrom(_, _, _)
ParseFrom(stem, i, acc) ==
    IF i > Len(stem) THEN acc ELSE ParseFrom(stem, i + 1, 10 * acc + stem[i])

\* convertIndex: strconv.ParseInt(stem, 10, 64) of a string of digits.
convertIndex(stem) == ParseFrom(stem, 1, 0)

RECURSIVE StemLess(_, _, _)
StemLess(a, b, i) ==
    IF i > Len(a) \/ i > Len(b) THEN Len(a) < Len(b)
    ELSE IF a[i] # b[i] THEN a[i] < b[i]
    ELSE StemLess(a, b, i + 1)

\* The lexical order in which filepath.Walk visits the names of a directory:
\* after equal digits, '.' (of ".wal") sorts before '_' (of "_END.wal").
NameLess(a, b) ==
    IF a.stem = b.stem THEN (~a.end /\ b.end) ELSE StemLess(a.stem, b.stem, 1)

RECURSIVE SortedNames(_)
SortedNames(S) ==
    IF S = {} THEN <<>>
    ELSE LET m == CHOOSE a \in S : \A b \in S \ {a} : NameLess(a, b)
         IN  <<m>> \o SortedNames(S \ {m})

(* ------------------------------- disk --------------------------------- *)

\* os.O_CREATE: the file exists afterwards, an existing one keeps its bytes.
Create(fs, p) ==
    IF p \in DOMAIN fs THEN fs
    ELSE [n \in DOMAIN fs \cup {p} |-> IF n = p THEN <<>> ELSE fs[n]]

\* os.Remove of an existing file.
Unlink(fs, p) == [n \in DOMAIN fs \ {p} |-> fs[n]]

\* os.Rename of an existing file: a file already at the new name is replaced.
Rename(fs, old, new) ==
    IF old = new THEN fs
    ELSE [n \in (DOMAIN fs \ {old}) \cup {new} |-> IF n = new THEN fs[old] ELSE fs[n]]

(* ------------------------- tail handle (fmmap) ------------------------ *)

\* wal.tail before any file is opened.
NilTail == [nil |-> TRUE, name |-> TailName(0), closed |-> FALSE]

\* open(path): fmmap.NewFile(path, O_RDWR|O_CREATE), a handle on the file.
open(path) == [nil |-> FALSE, name |-> path, closed |-> FALSE]

(* ---------------------------- read cache ------------------------------ *)

\* lru Put: the entry becomes the most recent one; the least recent entry is
\* dropped when the capacity is exceeded.
CachePut(c, key, value) ==
    LET full == <<[key |-> key, value |-> value]>> \o SelectSeq(c, LAMBDA e : e.key # key)
    IN  IF Len(full) > CACHE_CAP THEN SubSeq(full, 1, CACHE_CAP) ELSE full

CacheHas(c, key) == \E i \in 1..Len(c) : c[i].key = key

CacheValue(c, key) == c[CHOOSE i \in 1..Len(c) : c[i].key = key].value

(* ------------------------- WAL: the operations ------------------------ *)
(* An operation takes the WAL and its directory as one record              *)
(*   w = [files, segments, lastIndex, tail, cache]                         *)
(* and yields the record after it, with what it returns.  A *Segment is    *)
(* the position of the segment in w.segments.                              *)

\* NewWAL
NewWAL(fs) ==
    [files |-> fs, segments |-> <<>>, lastIndex |-> 0, tail |-> NilTail, cache |-> <<>>]

\* newSegment: seal the previous tail by renaming it, create the next tail.
newSegment(w) ==
    LET prevTail    == w.tail.name
        regularPath == RegularPath(prevTail)
    IN  IF ~w.tail.nil /\ prevTail \notin DOMAIN w.files
        THEN [w |-> [w EXCEPT !.tail.closed = TRUE], err |-> TRUE, seg |-> 0]
        ELSE LET renamed == IF w.tail.nil THEN w.files
                            ELSE Rename(w.files, prevTail, regularPath)
                 index   == w.lastIndex + 1
                 temp    == TailName(index)
                 segment == [path |-> temp, index |-> index, size |-> 0, data |-> <<>>]
             IN  [w   |-> [w EXCEPT !.files     = Create(renamed, temp),
                                    !.tail      = open(temp),
                                    !.lastIndex = index,
                                    !.segments  = Append(w.segments, segment)],
                  err |-> FALSE,
                  seg |-> Len(w.segments) + 1]

RECURSIVE SearchLoop(_, _, _, _)
\* sort.Search(len(segs), func(h) { return target <= segs[h].index }), 0-based.
SearchLoop(segs, target, i, j) ==
    IF i < j
    THEN LET h == (i + j) \div 2
         IN  IF ~(target <= segs[h + 1].index) THEN SearchLoop(segs, target, h + 1, j)
                                               ELSE SearchLoop(segs, target, i, h)
    ELSE i

SortSearch(segs, target) == SearchLoop(segs, target, 0, Len(segs))

\* getLastSegment: the segment whose index is lastIndex, or a new one.
getLastSegment(w) ==
    LET i == SortSearch(w.segments, w.lastIndex)
    IN  IF i < Len(w.segments) /\ w.segments[i + 1].index = w.lastIndex
        THEN [w |-> w, err |-> FALSE, seg |-> i + 1]
        ELSE newSegment(w)

\* Segment.getSegmentData: open(path) creates a missing file; all its bytes.
getSegmentData(w, seg) ==
    LET fs == Create(w.files, w.segments[seg].path)
    IN  [w |-> [w EXCEPT !.files = fs], err |-> FALSE, data |-> fs[w.segments[seg].path]]

\* cacheit
cacheit(w, index, value) == [w EXCEPT !.cache = CachePut(w.cache, index, value)]

\* findInCache: a hit makes the entry the most recent one.
findInCache(w, index) ==
    IF CacheHas(w.cache, index)
    THEN [w |-> [w EXCEPT !.cache = CachePut(w.cache, index, CacheValue(w.cache, index))],
          err |-> FALSE, data |-> CacheValue(w.cache, index)]
    ELSE [w |-> w, err |-> TRUE, data |-> <<>>]

\* findSegment: the segment of that index, cached on the way.
findSegment(w, index) ==
    LET i == SortSearch(w.segments, index)
    IN  IF i < Len(w.segments) /\ w.segments[i + 1].index = index
        THEN LET d == getSegmentData(w, i + 1)
             IN  [w |-> cacheit(d.w, index, d.data), err |-> FALSE, seg |-> i + 1]
        ELSE [w |-> w, err |-> TRUE, seg |-> 0]

\* Read
Read(w, index) ==
    IF index >= w.lastIndex
    THEN LET g == getLastSegment(w)
         IN  IF g.err THEN [w |-> g.w, err |-> TRUE, data |-> <<>>]
             ELSE getSegmentData(g.w, g.seg)
    ELSE LET c == findInCache(w, index)
         IN  IF ~c.err THEN c
             ELSE LET f == findSegment(w, index)
                  IN  IF f.err THEN [w |-> f.w, err |-> TRUE, data |-> <<>>]
                      ELSE getSegmentData(f.w, f.seg)

\* Segment.Append
SegAppend(s, data, size) == [s EXCEPT !.data = @ \o data, !.size = @ + size]

\* Segment.SetData
SetData(s, data) == [s EXCEPT !.data = @ \o data]

\* wal.tail.Update(data): the bytes are appended to the file of the handle.
TailUpdate(w, data) ==
    IF w.tail.name \in DOMAIN w.files
    THEN [w EXCEPT !.files[w.tail.name] = @ \o data]
    ELSE w

\* Update: the durable append, then the same bytes into the segment's shadow.
\* A closed handle refuses the append: Update returns the error and leaves
\* the segment as it was.
Update(w, data, seg) ==
    IF w.tail.closed THEN [w |-> w, err |-> TRUE]
    ELSE LET u == TailUpdate(w, data)
         IN  [w |-> [u EXCEPT !.segments[seg] = SegAppend(@, data, Len(data))], err |-> FALSE]

RECURSIVE EncodeAll(_, _, _)
\* The loop of Set over the batch.
EncodeAll(ts, sec, i) ==
    IF i > Len(ts) THEN <<>>
    ELSE Process(ts[i].Key, ts[i].Value, ts[i].Deleted, sec) \o EncodeAll(ts, sec, i + 1)

RECURSIVE EncodeCap(_, _, _, _)
\* The capacity of `data` after the loop of Set: it starts as []byte{} and
\* every append(data, part...) grows it as append does.
EncodeCap(ts, i, length, capacity) ==
    IF i > Len(ts) THEN capacity
    ELSE LET needed == length + VALUE_SIZE + Len(ts[i].Key) + Len(ts[i].Value)
         IN  EncodeCap(ts, i + 1, needed, growslice(capacity, needed, 1))

\* Set
Set(w, ts, sec) ==
    LET n == newSegment(w)
    IN  IF n.err THEN [w |-> n.w, err |-> TRUE]
        ELSE Update(n.w, EncodeAll(ts, sec, 1), n.seg)

\* setupLastSegment
setupLastSegment(w) ==
    LET g == getLastSegment(w)
    IN  IF g.err THEN [w |-> g.w, err |-> TRUE]
        ELSE LET path == g.w.segments[g.seg].path
                 fs   == Create(g.w.files, path)
             IN  [w |-> [g.w EXCEPT !.files = fs,
                                    !.tail = open(path),
                                    !.segments[g.seg] = SetData(@, fs[path])],
                  err |-> FALSE]

RECURSIVE WalkFrom(_, _, _)
\* The callback of filepath.Walk in Open, over the names in lexical order.
WalkFrom(w, names, k) ==
    IF k > Len(names) THEN w
    ELSE LET name == names[k]
             i    == convertIndex(name.stem)
             seg  == [path |-> name, index |-> i, size |-> Len(w.files[name]), data |-> <<>>]
         IN  WalkFrom([w EXCEPT !.lastIndex = IF name.end THEN i ELSE @,
                                !.segments  = Append(@, seg)],
                      names, k + 1)

\* Open
Open(w) == setupLastSegment(WalkFrom(w, SortedNames(DOMAIN w.files), 1))

\* removeIndex: wal.segments[index+1:] panics when index+1 is beyond the length.
removeIndex(segs, index) ==
    IF index < 0 \/ index + 1 > Len(segs) THEN [panic |-> TRUE, segs |-> segs]
    ELSE [panic |-> FALSE,
          segs |-> SubSeq(segs, 1, index) \o SubSeq(segs, index + 2, Len(segs))]

RECURSIVE CleanLoop(_, _, _)
\* The loop of cleanLog, i counting down from len(segments)-1 to lowMark; with
\* no other goroutine at wal.segments i is below the length and removeIndex
\* does not panic.
CleanLoop(w, i, low) ==
    IF i < low THEN w
    ELSE LET path == w.segments[i + 1].path
         IN  IF path \notin DOMAIN w.files THEN w
             ELSE CleanLoop([w EXCEPT !.files = Unlink(@, path),
                                      !.segments = removeIndex(@, i).segs],
                            i - 1, low)

\* cleanLog
cleanLog(w, low) == CleanLoop(w, Len(w.segments) - 1, low)

\* Close: wal.tail.Close()
Close(w) == [w EXCEPT !.tail.closed = TRUE]

(* ------------------------------ inputs -------------------------------- *)

\* The records of the batches handed to Set: {"a","1",false}, {"b","2",true},
\* {"k","v",false} and a record with an empty key and an empty value.
RecA == [Key |-> <<97>>, Value |-> <<49>>, Deleted |-> FALSE]
RecB == [Key |-> <<98>>, Value |-> <<50>>, Deleted |-> TRUE]
RecK == [Key |-> <<107>>, Value |-> <<118>>, Deleted |-> FALSE]

RecE == [Key |-> <<>>, Value |-> <<>>, Deleted |-> TRUE]

Batches == {<<RecA, RecB>>, <<RecK>>}

\* The record streams handed to the codec, the empty stream among them.
Records == {RecA, RecB, RecE}
RecSeqs == UNION {[1..n -> Records] : n \in 0..MaxRecs}

\* What time.Now().Unix() returns.
Times == {1700000000}

LowMarks == 0..MaxLowMark

ReadIndices == 0..(MaxIndex + 1)

(* ---------------------------- state machine --------------------------- *)

VARIABLES
    files,      \* the directory wal.path: file name -> bytes
    segments,   \* wal.segments
    lastIndex,  \* wal.lastIndex
    tail,       \* wal.tail
    cache,      \* wal.cache, most recently used first
    lowMark,    \* wal.lowMark
    phase,      \* "new" (constructed), "open" (Open returned nil), "failed", "closed"
    ret,        \* the last operation, its argument and what it returned
    hist,       \* history: the batches of the Set calls that returned nil
    fresh,      \* history: no Set and no sweep since Open returned
    mu,         \* wal.mu: "free" or the goroutine that holds it
    pc,         \* goroutine -> the statement it is at (the concurrent specification)
    loc,        \* goroutine -> its local variables
    ctx,        \* the context handed to clean(ctx): "live" or "cancelled"
    heap        \* the memory of the concurrent specification: obj is address ->
                \* Segment, arr is address -> the words of memory at a backing
                \* array of a []*Segment (a word 0 is nil), size is address ->
                \* the number of those words that were allocated for the
                \* array, hdr is the three words of wal.segments (ptr: the
                \* backing array, len, cap)

vars == <<files, segments, lastIndex, tail, cache, lowMark, phase, ret, hist, fresh,
          mu, pc, loc, ctx, heap>>

\* No Segment allocated, wal.segments the empty slice without backing array.
NoHeap == [obj |-> <<>>, arr |-> <<>>, size |-> <<>>,
           hdr |-> [ptr |-> 0, len |-> 0, cap |-> 0]]

\* The goroutines of the concurrent specification: main calls Open, two callers
\* call Set, and the retention goroutine of clean(ctx) calls cleanLog.
Setters == {"s1", "s2"}
Procs == {"main", "gc"} \cup Setters

\* ts: the batch; prev: prevTail; index: index; seg: the address of segment;
\* snap: the words read from wal.segments; i: the loop counter of cleanLog.
NoLocals == [ts |-> <<>>, prev |-> TailName(0), index |-> 0, seg |-> 0,
             snap |-> [ptr |-> 0, len |-> 0, cap |-> 0], i |-> 0]

\* The highest index each caller of Set goes on to create.
MaxIndexOf == [p \in Setters |-> IF p = "s1" THEN MaxIndex ELSE MaxSecond]

W == [files |-> files, segments |-> segments, lastIndex |-> lastIndex,
      tail |-> tail, cache |-> cache]

Install(w) ==
    /\ files' = w.files
    /\ segments' = w.segments
    /\ lastIndex' = w.lastIndex
    /\ tail' = w.tail
    /\ cache' = w.cache

Ret(op, arg, err, out, panic) ==
    [op |-> op, arg |-> arg, err |-> err, out |-> out, panic |-> panic]

Init ==
    /\ files = <<>>
    /\ segments = NewWAL(<<>>).segments
    /\ lastIndex = NewWAL(<<>>).lastIndex
    /\ tail = NewWAL(<<>>).tail
    /\ cache = NewWAL(<<>>).cache
    /\ lowMark \in LowMarks
    /\ phase = "new"
    /\ ret = Ret("NewWAL", 0, FALSE, <<>>, FALSE)
    /\ hist = <<>>
    /\ fresh = FALSE
    /\ mu = "free"
    /\ pc = [p \in Procs |-> "off"]
    /\ loc = [p \in Procs |-> NoLocals]
    /\ ctx = "live"
    /\ heap = NoHeap

\* wal.Open() on a freshly constructed WAL.
DoOpen ==
    /\ phase = "new"
    /\ LET r == Open(W)
       IN  /\ r.w.lastIndex <= MaxIndex
           /\ Install(r.w)
           /\ phase' = IF r.err THEN "failed" ELSE "open"
           /\ ret' = Ret("Open", 0, r.err, <<>>, FALSE)
           /\ fresh' = ~r.err
    /\ UNCHANGED <<lowMark, hist, mu, pc, loc, ctx, heap>>

\* wal.Set(ts)
DoSet ==
    /\ phase = "open"
    /\ \E ts \in Batches, sec \in Times :
          LET r == Set(W, ts, sec)
          IN  /\ r.w.lastIndex <= MaxIndex
              /\ Install(r.w)
              /\ ret' = Ret("Set", ts, r.err, <<>>, FALSE)
              /\ hist' = IF r.err THEN hist
                         ELSE Append(SelectSeq(hist, LAMBDA e : e.index # r.w.lastIndex),
                                     [index |-> r.w.lastIndex, recs |-> ts,
                                      bytes |-> EncodeAll(ts, sec, 1), closed |-> FALSE])
    /\ fresh' = FALSE
    /\ UNCHANGED <<lowMark, phase, mu, pc, loc, ctx, heap>>

\* wal.Read(index)
DoRead ==
    /\ phase = "open"
    /\ \E index \in ReadIndices :
          LET r == Read(W, index)
          IN  /\ r.w.lastIndex <= MaxIndex
              /\ Install(r.w)
              /\ ret' = Ret("Read", index, r.err, r.data, FALSE)
    /\ UNCHANGED <<lowMark, phase, hist, fresh, mu, pc, loc, ctx, heap>>

\* wal.ReadConverted(index).  The bytes Read returns hold whole records only
\* (the files are written by Set alone), so convert reads none beyond their
\* length and the capacity of the slice, which fmmap decides, has no effect.
DoReadConverted ==
    /\ phase = "open"
    /\ \E index \in ReadIndices :
          LET r == Read(W, index)
              c == convert(Exact(r.data))
          IN  /\ r.w.lastIndex <= MaxIndex
              /\ Install(r.w)
              /\ ret' = IF r.err THEN Ret("ReadConverted", index, TRUE, <<>>, FALSE)
                        ELSE Ret("ReadConverted", index, FALSE, c.entries, c.panic)
    /\ UNCHANGED <<lowMark, phase, hist, fresh, mu, pc, loc, ctx, heap>>

\* One tick of the retention loop: wal.cleanLog()
DoCleanLog ==
    /\ phase = "open"
    /\ LET w == cleanLog(W, lowMark)
       IN  /\ Install(w)
           /\ fresh' = (fresh /\ DOMAIN w.files = DOMAIN files)
    /\ ret' = Ret("cleanLog", 0, FALSE, <<>>, FALSE)
    /\ UNCHANGED <<lowMark, phase, hist, mu, pc, loc, ctx, heap>>

\* wal.Close()
DoClose ==
    /\ phase = "open"
    /\ Install(Close(W))
    /\ phase' = "closed"
    /\ ret' = Ret("Close", 0, FALSE, <<>>, FALSE)
    /\ hist' = [k \in 1..Len(hist) |-> [hist[k] EXCEPT !.closed = TRUE]]
    /\ fresh' = FALSE
    /\ UNCHANGED <<lowMark, mu, pc, loc, ctx, heap>>

\* NewWAL on the same directory, after the previous WAL was closed.
DoNewWAL ==
    /\ phase = "closed"
    /\ Install(NewWAL(files))
    /\ lowMark' \in LowMarks
    /\ phase' = "new"
    /\ ret' = Ret("NewWAL", 0, FALSE, <<>>, FALSE)
    /\ UNCHANGED <<hist, fresh, mu, pc, loc, ctx, heap>>

Next ==
    \/ DoOpen
    \/ DoSet
    \/ DoRead
    \/ DoReadConverted
    \/ DoCleanLog
    \/ DoClose
    \/ DoNewWAL

Spec == Init /\ [][Next]_vars

(* ---------------------- concurrent specification ---------------------- *)
(* The same WAL with its operations split at the statements where another  *)
(* goroutine can run.  Open and cleanLog take wal.mu; Set does not.        *)

InitConc ==
    /\ files = <<>>
    /\ segments = NewWAL(<<>>).segments
    /\ lastIndex = NewWAL(<<>>).lastIndex
    /\ tail = NewWAL(<<>>).tail
    /\ cache = NewWAL(<<>>).cache
    /\ lowMark \in 0..MaxConcLowMark
    /\ phase = "new"
    /\ ret = Ret("NewWAL", 0, FALSE, <<>>, FALSE)
    /\ hist = <<>>
    /\ fresh = FALSE
    /\ mu = "free"
    /\ pc = [p \in Procs |-> IF p = "main" THEN "start" ELSE "idle"]
    /\ loc = [p \in Procs |-> NoLocals]
    /\ ctx = "live"
    /\ heap = NoHeap

Goto(p, label) == pc' = [pc EXCEPT ![p] = label]

\* Open: wal.mu.Lock()
MainLock ==
    /\ pc["main"] = "start" /\ mu = "free"
    /\ mu' = "main"
    /\ Goto("main", "open")
    /\ UNCHANGED <<files, segments, lastIndex, tail, cache, lowMark, phase, ret, hist,
                   fresh, loc, ctx, heap>>

\* The size of a pointer, the element of []*Segment.
PTR_SIZE == 8

RECURSIVE CapAfter(_)
\* The capacity of a []*Segment that n AppendSegment calls have built from
\* []*Segment{}.
CapAfter(n) == IF n = 0 THEN 0 ELSE growslice(CapAfter(n - 1), n, PTR_SIZE)

\* The memory after Open: the segments it has appended, in one backing array.
HeapOf(segs) ==
    [obj |-> segs,
     arr |-> <<[k \in 1..CapAfter(Len(segs)) |-> IF k <= Len(segs) THEN k ELSE 0]>>,
     size |-> <<CapAfter(Len(segs))>>,
     hdr |-> [ptr |-> 1, len |-> Len(segs), cap |-> CapAfter(Len(segs))]]

\* Open: the walk and setupLastSegment, under the mutex.
MainOpen ==
    /\ pc["main"] = "open"
    /\ LET r == Open(W)
       IN  /\ Install(r.w)
           /\ phase' = IF r.err THEN "failed" ELSE "open"
           /\ ret' = Ret("Open", 0, r.err, <<>>, FALSE)
           /\ heap' = HeapOf(r.w.segments)
    /\ Goto("main", "unlock")
    /\ UNCHANGED <<lowMark, hist, fresh, mu, loc, ctx>>

\* Open: the deferred wal.mu.Unlock()
MainUnlock ==
    /\ pc["main"] = "unlock"
    /\ mu' = "free"
    /\ Goto("main", "done")
    /\ UNCHANGED <<files, segments, lastIndex, tail, cache, lowMark, phase, ret, hist,
                   fresh, loc, ctx, heap>>

\* The batch each of the two callers hands to Set.
BatchOf(p) == IF p = "s1" THEN <<RecA, RecB>> ELSE <<RecK>>

\* The number of elements allocated for the backing array a.
Allocated(h, a) == IF a = 0 THEN 0 ELSE h.size[a]

\* A slice header put together from the words of two different slices reaches
\* beyond the allocation of its backing array, and no load or store through
\* it is checked against the allocation: it reads or writes the words of
\* memory that lie behind the array.  What those words hold before a store of
\* the program writes them is not determined by the source: nil, or a pointer
\* to a Segment.
Words(h) == 0..(IF Len(h.obj) < MaxStale THEN Len(h.obj) ELSE MaxStale)

\* The memories that are h with the first n words at the array a given their
\* content: the words already read or written are as they are, every other
\* one holds any of the values it can hold.
Determine(h, a, n) ==
    IF a = 0 \/ n <= Len(h.arr[a]) THEN {h}
    ELSE {[h EXCEPT !.arr[a] = @ \o ext] :
             ext \in [1..(n - Len(h.arr[a])) -> Words(h)]}

\* What an element of wal.segments shows when it is nil: no Segment, index 0
\* and the name of no file.
NilSegment == [path |-> TailName(0), index |-> 0, size |-> 0, data |-> <<>>]

\* wal.segments as the goroutines see it: the Segment objects that the len
\* words at ptr point to.
View(h) ==
    [k \in 1..h.hdr.len |->
        IF h.arr[h.hdr.ptr][k] = 0 THEN NilSegment
        ELSE h.obj[h.arr[h.hdr.ptr][k]]]

\* A store into the memory; the words that wal.segments covers from now on
\* have their content.
SetHeap(h) ==
    \E m \in Determine(h, h.hdr.ptr, h.hdr.len) :
        /\ heap' = m
        /\ segments' = View(m)

\* The Set calls that are inside newSegment and have not yet written wal.lastIndex.
InNewSegment ==
    {q \in Setters :
        pc[q] \in {"ns_close", "ns_rename", "ns_index", "ns_open", "ns_tail", "ns_last"}}

\* The program ends: no goroutine recovers the panic of cleanLog, and after
\* its deferred calls the runtime prints the panic and exits.
Crash ==
    /\ pc["gc"] = "fatal"
    /\ pc' = [q \in Procs |-> "crashed"]
    /\ UNCHANGED <<files, segments, lastIndex, tail, cache, lowMark, phase, ret, hist,
                   fresh, mu, loc, ctx, heap>>

\* Set -> newSegment: prevTail, err := wal.TailPath()
SetTailPath(p) ==
    /\ pc[p] = "idle" /\ phase = "open"
    /\ lastIndex + Cardinality(InNewSegment) < MaxIndexOf[p]
    /\ \E ts \in {BatchOf(p)} :
          IF tail.nil
          THEN /\ loc' = [loc EXCEPT ![p] = [NoLocals EXCEPT !.ts = ts]]
               /\ Goto(p, "ns_index")
          ELSE /\ loc' = [loc EXCEPT ![p] = [NoLocals EXCEPT !.ts = ts, !.prev = tail.name]]
               /\ Goto(p, "ns_close")
    /\ UNCHANGED <<files, segments, lastIndex, tail, cache, lowMark, phase, ret, hist,
                   fresh, mu, ctx, heap>>

\* newSegment: wal.tail.Close(), on whatever handle wal.tail is by now.
SetCloseTail(p) ==
    /\ pc[p] = "ns_close"
    /\ tail' = [tail EXCEPT !.closed = TRUE]
    /\ Goto(p, "ns_rename")
    /\ UNCHANGED <<files, segments, lastIndex, cache, lowMark, phase, ret, hist, fresh,
                   mu, loc, ctx, heap>>

\* newSegment: os.Rename(prevTail, regularPath); an error is returned by Set.
SetRename(p) ==
    /\ pc[p] = "ns_rename"
    /\ IF loc[p].prev \notin DOMAIN files
       THEN /\ ret' = Ret("Set", loc[p].ts, TRUE, <<>>, FALSE)
            /\ loc' = [loc EXCEPT ![p] = NoLocals]
            /\ Goto(p, "idle")
            /\ UNCHANGED files
       ELSE /\ files' = Rename(files, loc[p].prev, RegularPath(loc[p].prev))
            /\ Goto(p, "ns_index")
            /\ UNCHANGED <<ret, loc>>
    /\ UNCHANGED <<segments, lastIndex, tail, cache, lowMark, phase, hist, fresh, mu,
                   ctx, heap>>

\* newSegment: index := int64(wal.lastIndex + 1)
SetReadIndex(p) ==
    /\ pc[p] = "ns_index"
    /\ loc' = [loc EXCEPT ![p].index = lastIndex + 1]
    /\ Goto(p, "ns_open")
    /\ UNCHANGED <<files, segments, lastIndex, tail, cache, lowMark, phase, ret, hist,
                   fresh, mu, ctx, heap>>

\* newSegment: open(temp): fmmap.NewFile creates the file and opens it.
SetOpenTail(p) ==
    /\ pc[p] = "ns_open"
    /\ files' = Create(files, TailName(loc[p].index))
    /\ Goto(p, "ns_tail")
    /\ UNCHANGED <<segments, lastIndex, tail, cache, lowMark, phase, ret, hist, fresh, mu,
                   loc, ctx, heap>>

\* newSegment: wal.tail, err = ...: the handle open returned is stored.
SetStoreTail(p) ==
    /\ pc[p] = "ns_tail"
    /\ tail' = open(TailName(loc[p].index))
    /\ Goto(p, "ns_last")
    /\ UNCHANGED <<files, segments, lastIndex, cache, lowMark, phase, ret, hist, fresh,
                   mu, loc, ctx, heap>>

\* newSegment: segment := &Segment{index, path}; wal.lastIndex = index
SetLastIndex(p) ==
    /\ pc[p] = "ns_last"
    /\ lastIndex' = loc[p].index
    /\ heap' = [heap EXCEPT !.obj = Append(@, [path |-> TailName(loc[p].index),
                                               index |-> loc[p].index,
                                               size |-> 0, data |-> <<>>])]
    /\ loc' = [loc EXCEPT ![p].seg = Len(heap.obj) + 1]
    /\ Goto(p, "ns_ptr")
    /\ UNCHANGED <<files, segments, tail, cache, lowMark, phase, ret, hist, fresh, mu,
                   ctx>>

\* AppendSegment: wal.segments = append(wal.segments, segment) assigns to the
\* slice it appends to, and is compiled as
\*     ptr, len, cap := wal.segments
\*     if len+1 > cap { ptr, len, cap = growslice(...); wal.segments.cap = cap;
\*                      wal.segments.ptr = ptr }
\*     wal.segments.len = len+1
\*     *(ptr+len) = segment
\* Every load and every store of a word is a step of its own.

\* AppendSegment: the load of wal.segments.ptr
SetLoadPtr(p) ==
    /\ pc[p] = "ns_ptr"
    /\ loc' = [loc EXCEPT ![p].snap.ptr = heap.hdr.ptr]
    /\ Goto(p, "ns_len")
    /\ UNCHANGED <<files, segments, lastIndex, tail, cache, lowMark, phase, ret, hist,
                   fresh, mu, ctx, heap>>

\* AppendSegment: the load of wal.segments.len
SetLoadLen(p) ==
    /\ pc[p] = "ns_len"
    /\ loc' = [loc EXCEPT ![p].snap.len = heap.hdr.len]
    /\ Goto(p, "ns_cap")
    /\ UNCHANGED <<files, segments, lastIndex, tail, cache, lowMark, phase, ret, hist,
                   fresh, mu, ctx, heap>>

\* AppendSegment: the load of wal.segments.cap, and the test len+1 > cap
SetLoadCap(p) ==
    /\ pc[p] = "ns_cap"
    /\ loc' = [loc EXCEPT ![p].snap.cap = heap.hdr.cap]
    /\ Goto(p, IF loc[p].snap.len + 1 > heap.hdr.cap THEN "ns_grow" ELSE "ns_slen")
    /\ UNCHANGED <<files, segments, lastIndex, tail, cache, lowMark, phase, ret, hist,
                   fresh, mu, ctx, heap>>

\* AppendSegment: growslice allocates a larger array and copies the len words
\* at ptr, as they are by now, whether they lie in the old array or behind it.
SetGrow(p) ==
    /\ pc[p] = "ns_grow"
    /\ LET snap == loc[p].snap
           capacity == growslice(snap.cap, snap.len + 1, PTR_SIZE)
       IN  \E m \in Determine(heap, snap.ptr, snap.len) :
              /\ heap' = [m EXCEPT !.arr = Append(@,
                              [k \in 1..capacity |->
                                  IF k <= snap.len THEN m.arr[snap.ptr][k] ELSE 0]),
                                   !.size = Append(@, capacity)]
              /\ loc' = [loc EXCEPT ![p].snap = [ptr |-> Len(heap.arr) + 1,
                                                 len |-> snap.len, cap |-> capacity]]
    /\ Goto(p, "ns_scap")
    /\ UNCHANGED <<files, segments, lastIndex, tail, cache, lowMark, phase, ret, hist,
                   fresh, mu, ctx>>

\* AppendSegment: the store of wal.segments.cap after growslice
SetStoreCap(p) ==
    /\ pc[p] = "ns_scap"
    /\ SetHeap([heap EXCEPT !.hdr.cap = loc[p].snap.cap])
    /\ Goto(p, "ns_sptr")
    /\ UNCHANGED <<files, lastIndex, tail, cache, lowMark, phase, ret, hist, fresh, mu,
                   loc, ctx>>

\* AppendSegment: the store of wal.segments.ptr after growslice
SetStorePtr(p) ==
    /\ pc[p] = "ns_sptr"
    /\ SetHeap([heap EXCEPT !.hdr.ptr = loc[p].snap.ptr])
    /\ Goto(p, "ns_slen")
    /\ UNCHANGED <<files, lastIndex, tail, cache, lowMark, phase, ret, hist, fresh, mu,
                   loc, ctx>>

\* AppendSegment: the store of wal.segments.len; the new element is nil still.
SetStoreLen(p) ==
    /\ pc[p] = "ns_slen"
    /\ SetHeap([heap EXCEPT !.hdr.len = loc[p].snap.len + 1])
    /\ Goto(p, "ns_elem")
    /\ UNCHANGED <<files, lastIndex, tail, cache, lowMark, phase, ret, hist, fresh, mu,
                   loc, ctx>>

\* AppendSegment: the store of the segment into the word behind the len
\* elements at ptr, in the backing array or behind it.
SetStoreElement(p) ==
    /\ pc[p] = "ns_elem"
    /\ LET snap == loc[p].snap
       IN  \E m \in Determine(heap, snap.ptr, snap.len + 1) :
              SetHeap([m EXCEPT !.arr[snap.ptr][snap.len + 1] = loc[p].seg])
    /\ loc' = [loc EXCEPT ![p].snap = NoLocals.snap]
    /\ Goto(p, "update")
    /\ UNCHANGED <<files, lastIndex, tail, cache, lowMark, phase, ret, hist, fresh, mu,
                   ctx>>

\* Update with the early return left out: the shadow receives the bytes even
\* though the durable append has failed.
SetUpdateTailPartial(p) ==
    /\ pc[p] = "update"
    /\ \E sec \in Times :
          LET data == EncodeAll(loc[p].ts, sec, 1)
          IN  IF tail.closed
              THEN /\ SetHeap([heap EXCEPT !.obj[loc[p].seg] = SegAppend(@, data, Len(data))])
                   /\ Goto(p, "update_err")
                   /\ UNCHANGED files
              ELSE /\ files' = TailUpdate(W, data).files
                   /\ Goto(p, "shadow")
                   /\ UNCHANGED <<segments, heap>>
    /\ UNCHANGED <<lastIndex, tail, cache, lowMark, phase, ret, hist, fresh, mu, loc, ctx>>

\* Update: err := wal.tail.Update(data), on whatever handle wal.tail is by now;
\* a closed handle refuses the append and Update takes its early return.
SetUpdateTail(p) ==
    /\ pc[p] = "update"
    /\ \E sec \in Times :
          IF tail.closed
          THEN /\ Goto(p, "update_err")
               /\ UNCHANGED files
          ELSE /\ files' = TailUpdate(W, EncodeAll(loc[p].ts, sec, 1)).files
               /\ Goto(p, "shadow")
    /\ UNCHANGED <<segments, lastIndex, tail, cache, lowMark, phase, ret, hist, fresh, mu,
                   loc, ctx, heap>>

\* Update: return err; Set: return err.
SetReturnErr(p) ==
    /\ pc[p] = "update_err"
    /\ ret' = Ret("Set", loc[p].ts, TRUE, <<>>, FALSE)
    /\ loc' = [loc EXCEPT ![p] = NoLocals]
    /\ Goto(p, "idle")
    /\ UNCHANGED <<files, segments, lastIndex, tail, cache, lowMark, phase, hist, fresh, mu,
                   ctx, heap>>

\* Update: s.Append(data, len(data)), on the segment newSegment returned,
\* whether wal.segments still points to it or not; Set returns nil.
SetAppendShadow(p) ==
    /\ pc[p] = "shadow"
    /\ \E sec \in Times :
          LET data == EncodeAll(loc[p].ts, sec, 1)
          IN  /\ SetHeap([heap EXCEPT !.obj[loc[p].seg] = SegAppend(@, data, Len(data))])
              /\ ret' = Ret("Set", loc[p].ts, FALSE, <<>>, FALSE)
    /\ loc' = [loc EXCEPT ![p] = NoLocals]
    /\ Goto(p, "idle")
    /\ UNCHANGED <<files, lastIndex, tail, cache, lowMark, phase, hist, fresh, mu, ctx>>

\* clean: case <-time.Tick(wal.d): the retention goroutine, started on the
\* opened WAL, calls wal.cleanLog().  A cancelled context does not keep select
\* from taking this case when the tick is ready as well.
Tick ==
    /\ pc["gc"] = "idle" /\ phase = "open"
    /\ Goto("gc", "lock")
    /\ UNCHANGED <<files, segments, lastIndex, tail, cache, lowMark, phase, ret, hist,
                   fresh, mu, loc, ctx, heap>>

\* cleanLog: wal.mu.Lock(); i := len(wal.segments) - 1
SweepLock ==
    /\ pc["gc"] = "lock" /\ mu = "free"
    /\ mu' = "gc"
    /\ loc' = [loc EXCEPT !["gc"].i = heap.hdr.len - 1]
    /\ Goto("gc", "loop")
    /\ UNCHANGED <<files, segments, lastIndex, tail, cache, lowMark, phase, ret, hist,
                   fresh, ctx, heap>>

\* cleanLog: the loop test, and of wal.segments[i] the load of
\* wal.segments.len with the bounds check: an index at or beyond the length
\* panics.
SweepLoadLen ==
    /\ pc["gc"] = "loop"
    /\ LET i == loc["gc"].i
       IN  IF i < lowMark THEN Goto("gc", "unlock")
           ELSE IF i >= heap.hdr.len THEN Goto("gc", "panic")
           ELSE Goto("gc", "loop_ptr")
    /\ UNCHANGED <<files, segments, lastIndex, tail, cache, lowMark, phase, ret, hist,
                   fresh, mu, loc, ctx, heap>>

\* cleanLog: of wal.segments[i], the load of wal.segments.ptr
SweepLoadPtr ==
    /\ pc["gc"] = "loop_ptr"
    /\ loc' = [loc EXCEPT !["gc"].snap.ptr = heap.hdr.ptr]
    /\ Goto("gc", "loop_elem")
    /\ UNCHANGED <<files, segments, lastIndex, tail, cache, lowMark, phase, ret, hist,
                   fresh, mu, ctx, heap>>

\* cleanLog: of wal.segments[i].Path(), the load of word i at ptr, in the
\* backing array or behind it; Path() on a nil *Segment panics.
SweepLoadSegment ==
    /\ pc["gc"] = "loop_elem"
    /\ LET i == loc["gc"].i
           ptr == loc["gc"].snap.ptr
       IN  \E m \in Determine(heap, ptr, i + 1) :
              /\ heap' = m
              /\ IF m.arr[ptr][i + 1] = 0
                 THEN /\ Goto("gc", "panic")
                      /\ UNCHANGED loc
                 ELSE /\ loc' = [loc EXCEPT !["gc"].seg = m.arr[ptr][i + 1],
                                            !["gc"].snap = NoLocals.snap]
                      /\ Goto("gc", "remove")
    /\ UNCHANGED <<files, segments, lastIndex, tail, cache, lowMark, phase, ret, hist,
                   fresh, mu, ctx>>

\* cleanLog: os.Remove(path); on an error the sweep returns.
SweepRemove ==
    /\ pc["gc"] = "remove"
    /\ LET path == heap.obj[loc["gc"].seg].path
       IN  IF path \notin DOMAIN files
           THEN /\ Goto("gc", "unlock")
                /\ UNCHANGED files
           ELSE /\ files' = Unlink(files, path)
                /\ Goto("gc", "drop_ptr")
    /\ loc' = [loc EXCEPT !["gc"].seg = 0]
    /\ UNCHANGED <<segments, lastIndex, tail, cache, lowMark, phase, ret, hist, fresh, mu,
                   ctx, heap>>

\* removeIndex: wal.segments = append(wal.segments[:index],
\* wal.segments[index+1:]...) loads the three words of wal.segments, checks the
\* bounds of the two slice expressions, moves the elements behind index one
\* place down in the backing array and stores the three words of the result
\* (len and cap, then ptr).  Every load and every store of a word is a step of
\* its own.

\* removeIndex: the load of wal.segments.ptr
SweepReadPtr ==
    /\ pc["gc"] = "drop_ptr"
    /\ loc' = [loc EXCEPT !["gc"].snap.ptr = heap.hdr.ptr]
    /\ Goto("gc", "drop_len")
    /\ UNCHANGED <<files, segments, lastIndex, tail, cache, lowMark, phase, ret, hist,
                   fresh, mu, ctx, heap>>

\* removeIndex: the load of wal.segments.len
SweepReadLen ==
    /\ pc["gc"] = "drop_len"
    /\ loc' = [loc EXCEPT !["gc"].snap.len = heap.hdr.len]
    /\ Goto("gc", "drop_cap")
    /\ UNCHANGED <<files, segments, lastIndex, tail, cache, lowMark, phase, ret, hist,
                   fresh, mu, ctx, heap>>

\* removeIndex: the load of wal.segments.cap and the bounds checks: index
\* beyond the capacity, or index+1 beyond the length, panics.
SweepReadCap ==
    /\ pc["gc"] = "drop_cap"
    /\ LET i == loc["gc"].i
       IN  IF i > heap.hdr.cap \/ removeIndex([k \in 1..loc["gc"].snap.len |-> k], i).panic
           THEN /\ Goto("gc", "panic")
                /\ UNCHANGED loc
           ELSE /\ loc' = [loc EXCEPT !["gc"].snap.cap = heap.hdr.cap]
                /\ Goto("gc", "drop_move")
    /\ UNCHANGED <<files, segments, lastIndex, tail, cache, lowMark, phase, ret, hist,
                   fresh, mu, ctx, heap>>

\* removeIndex: append moves the len - (index+1) words behind index one place
\* down, at the ptr read, where every slice on the array sees it; with no
\* word to move it touches no memory.
SweepMove ==
    /\ pc["gc"] = "drop_move"
    /\ LET i == loc["gc"].i
           snap == loc["gc"].snap
       IN  IF snap.len - (i + 1) <= 0
           THEN UNCHANGED <<heap, segments>>
           ELSE \E m \in Determine(heap, snap.ptr, snap.len) :
                   SetHeap([m EXCEPT !.arr[snap.ptr] =
                               [k \in 1..Len(@) |->
                                   IF k >= i + 1 /\ k < snap.len THEN @[k + 1] ELSE @[k]]])
    /\ Goto("gc", "drop_slen")
    /\ UNCHANGED <<files, lastIndex, tail, cache, lowMark, phase, ret, hist, fresh, mu,
                   loc, ctx>>

\* removeIndex: the store of wal.segments.len
SweepStoreLen ==
    /\ pc["gc"] = "drop_slen"
    /\ SetHeap([heap EXCEPT !.hdr.len = loc["gc"].snap.len - 1])
    /\ Goto("gc", "drop_scap")
    /\ UNCHANGED <<files, lastIndex, tail, cache, lowMark, phase, ret, hist, fresh, mu,
                   loc, ctx>>

\* removeIndex: the store of wal.segments.cap
SweepStoreCap ==
    /\ pc["gc"] = "drop_scap"
    /\ SetHeap([heap EXCEPT !.hdr.cap = loc["gc"].snap.cap])
    /\ Goto("gc", "drop_sptr")
    /\ UNCHANGED <<files, lastIndex, tail, cache, lowMark, phase, ret, hist, fresh, mu,
                   loc, ctx>>

\* removeIndex: the store of wal.segments.ptr; i--
SweepStorePtr ==
    /\ pc["gc"] = "drop_sptr"
    /\ SetHeap([heap EXCEPT !.hdr.ptr = loc["gc"].snap.ptr])
    /\ loc' = [loc EXCEPT !["gc"].i = @ - 1, !["gc"].snap = NoLocals.snap]
    /\ Goto("gc", "loop")
    /\ UNCHANGED <<files, lastIndex, tail, cache, lowMark, phase, ret, hist, fresh, mu, ctx>>

\* cleanLog panics: its deferred wal.mu.Unlock() runs, and the other
\* goroutines run on until the program ends.
SweepPanicUnlock ==
    /\ pc["gc"] = "panic"
    /\ mu' = "free"
    /\ Goto("gc", "fatal")
    /\ UNCHANGED <<files, segments, lastIndex, tail, cache, lowMark, phase, ret, hist,
                   fresh, loc, ctx, heap>>

\* cleanLog: the deferred wal.mu.Unlock()
SweepUnlock ==
    /\ pc["gc"] = "unlock"
    /\ mu' = "free"
    /\ loc' = [loc EXCEPT !["gc"] = NoLocals]
    /\ Goto("gc", "idle")
    /\ UNCHANGED <<files, segments, lastIndex, tail, cache, lowMark, phase, ret, hist,
                   fresh, ctx, heap>>

\* The caller of clean(ctx) cancels the context, while the program runs.
Cancel ==
    /\ ctx = "live" /\ pc["main"] # "crashed"
    /\ ctx' = "cancelled"
    /\ UNCHANGED <<files, segments, lastIndex, tail, cache, lowMark, phase, ret, hist,
                   fresh, mu, pc, loc, heap>>

\* clean: case <-ctx.Done(): return
CleanExit ==
    /\ pc["gc"] = "idle" /\ ctx = "cancelled"
    /\ Goto("gc", "exited")
    /\ UNCHANGED <<files, segments, lastIndex, tail, cache, lowMark, phase, ret, hist,
                   fresh, mu, loc, ctx, heap>>

NextConc ==
    \/ MainLock
    \/ MainOpen
    \/ MainUnlock
    \/ \E p \in Setters : SetTailPath(p)
    \/ \E p \in Setters : SetCloseTail(p)
    \/ \E p \in Setters : SetRename(p)
    \/ \E p \in Setters : SetReadIndex(p)
    \/ \E p \in Setters : SetOpenTail(p)
    \/ \E p \in Setters : SetStoreTail(p)
    \/ \E p \in Setters : SetLastIndex(p)
    \/ \E p \in Setters : SetLoadPtr(p)
    \/ \E p \in Setters : SetLoadLen(p)
    \/ \E p \in Setters : SetLoadCap(p)
    \/ \E p \in Setters : SetGrow(p)
    \/ \E p \in Setters : SetStoreCap(p)
    \/ \E p \in Setters : SetStorePtr(p)
    \/ \E p \in Setters : SetStoreLen(p)
    \/ \E p \in Setters : SetStoreElement(p)
    \/ \E p \in Setters : SetUpdateTail(p)
    \/ \E p \in Setters : SetReturnErr(p)
    \/ \E p \in Setters : SetAppendShadow(p)
    \/ Tick
    \/ SweepLock
    \/ SweepLoadLen
    \/ SweepLoadPtr
    \/ SweepLoadSegment
    \/ SweepRemove
    \/ SweepReadPtr
    \/ SweepReadLen
    \/ SweepReadCap
    \/ SweepMove
    \/ SweepStoreLen
    \/ SweepStoreCap
    \/ SweepStorePtr
    \/ SweepUnlock
    \/ SweepPanicUnlock
    \/ Crash

SpecConc == InitConc /\ [][NextConc]_vars

\* The retention goroutine of clean(ctx) with the context being cancelled at
\* any moment, beside Open and one caller of Set.
NextRetention ==
    \/ MainLock
    \/ MainOpen
    \/ MainUnlock
    \/ SetTailPath("s1")
    \/ SetCloseTail("s1")
    \/ SetRename("s1")
    \/ SetReadIndex("s1")
    \/ SetOpenTail("s1")
    \/ SetStoreTail("s1")
    \/ SetLastIndex("s1")
    \/ SetLoadPtr("s1")
    \/ SetLoadLen("s1")
    \/ SetLoadCap("s1")
    \/ SetGrow("s1")
    \/ SetStoreCap("s1")
    \/ SetStorePtr("s1")
    \/ SetStoreLen("s1")
    \/ SetStoreElement("s1")
    \/ SetUpdateTail("s1")
    \/ SetAppendShadow("s1")
    \/ Tick
    \/ SweepLock
    \/ SweepLoadLen
    \/ SweepLoadPtr
    \/ SweepLoadSegment
    \/ SweepRemove
    \/ SweepReadPtr
    \/ SweepReadLen
    \/ SweepReadCap
    \/ SweepMove
    \/ SweepStoreLen
    \/ SweepStoreCap
    \/ SweepStorePtr
    \/ SweepUnlock
    \/ SweepPanicUnlock
    \/ Crash
    \/ Cancel
    \/ CleanExit

\* The goroutines are scheduled fairly: Open runs to its Unlock, a sweep that
\* has started runs on, to its Unlock or to its panic, once it can take the
\* mutex, and the select of clean, which picks at random among its ready
\* cases, does not pass over a ready ctx.Done() for ever.
SpecRetention ==
    /\ InitConc /\ [][NextRetention]_vars
    /\ WF_vars(MainOpen)
    /\ WF_vars(MainUnlock)
    /\ WF_vars(SweepLock)
    /\ WF_vars(SweepLoadLen)
    /\ WF_vars(SweepLoadPtr)
    /\ WF_vars(SweepLoadSegment)
    /\ WF_vars(SweepRemove)
    /\ WF_vars(SweepReadPtr)
    /\ WF_vars(SweepReadLen)
    /\ WF_vars(SweepReadCap)
    /\ WF_vars(SweepMove)
    /\ WF_vars(SweepStoreLen)
    /\ WF_vars(SweepStoreCap)
    /\ WF_vars(SweepStorePtr)
    /\ WF_vars(SweepPanicUnlock)
    /\ WF_vars(Crash)
    /\ WF_vars(SweepUnlock)
    /\ SF_vars(CleanExit)

(* ------------------------- codec specification ----------------------- *)
(* Process and convert as pure functions: a stream of records is encoded,  *)
(* the bytes are possibly damaged the way a file on disk can be (cut short, *)
(* one byte changed), and convert decodes them.  ret holds the function     *)
(* applied last, its input (arg) and its output (out); a byte stream is     *)
(* held as the slice it is, with its backing array.                         *)

InitCodec ==
    /\ files = <<>>
    /\ segments = NewWAL(<<>>).segments
    /\ lastIndex = NewWAL(<<>>).lastIndex
    /\ tail = NewWAL(<<>>).tail
    /\ cache = NewWAL(<<>>).cache
    /\ lowMark = 0
    /\ phase = "new"
    /\ \E recs \in RecSeqs : ret = Ret("input", recs, FALSE, <<>>, FALSE)
    /\ hist = <<>>
    /\ fresh = FALSE
    /\ mu = "free"
    /\ pc = [p \in Procs |-> "off"]
    /\ loc = [p \in Procs |-> NoLocals]
    /\ ctx = "live"
    /\ heap = NoHeap

\* The loop of Set over the records: the concatenation of their encodings.
CodecProcess ==
    /\ ret.op = "input"
    /\ \E sec \in Times :
          ret' = Ret("Process", ret.arg, FALSE,
                     MakeSlice(EncodeAll(ret.arg, sec, 1), EncodeCap(ret.arg, 1, 0, 0)), FALSE)
    /\ UNCHANGED <<files, segments, lastIndex, tail, cache, lowMark, phase, hist, fresh,
                   mu, pc, loc, ctx, heap>>

\* The encoded stream cut short: resliced, data[:n], the bytes behind the cut
\* still in the backing array, or as a buffer of its own that ends at the
\* cut, as the bytes of a truncated segment file.
CodecTruncate ==
    /\ ret.op = "Process"
    /\ \E n \in 0..(ret.out.len - 1), own \in BOOLEAN :
          ret' = Ret("damage", ret.arg, FALSE,
                     IF own THEN Exact(SubSeq(ret.out.array, 1, n)) ELSE Reslice(ret.out, n),
                     FALSE)
    /\ UNCHANGED <<files, segments, lastIndex, tail, cache, lowMark, phase, hist, fresh,
                   mu, pc, loc, ctx, heap>>

\* One byte of the encoded stream changed.
CodecFlip ==
    /\ ret.op = "Process"
    /\ \E k \in 1..ret.out.len :
          ret' = Ret("damage", ret.arg, FALSE,
                     [ret.out EXCEPT !.array[k] = (@ + 1) % 256], FALSE)
    /\ UNCHANGED <<files, segments, lastIndex, tail, cache, lowMark, phase, hist, fresh,
                   mu, pc, loc, ctx, heap>>

\* wal.convert(bytes): it has no error result; a slice out of range panics.
CodecConvert ==
    /\ ret.op \in {"Process", "damage"}
    /\ ret' = Ret("convert", ret.out, FALSE, convert(ret.out).entries, convert(ret.out).panic)
    /\ UNCHANGED <<files, segments, lastIndex, tail, cache, lowMark, phase, hist, fresh,
                   mu, pc, loc, ctx, heap>>

NextCodec ==
    \/ CodecProcess
    \/ CodecTruncate
    \/ CodecFlip
    \/ CodecConvert

SpecCodec == InitCodec /\ [][NextCodec]_vars

(* ------------------------------ claims -------------------------------- *)

\* The entries at positions off+1 .. off+Len(recs) carry the records recs.
RecsAt(entries, off, recs) ==
    \A j \in 1..Len(recs) :
        /\ entries[off + j].Key = recs[j].Key
        /\ entries[off + j].Value = recs[j].Value
        /\ entries[off + j].Deleted = recs[j].Deleted

ContainsRecs(entries, recs) ==
    \E off \in 0..(Len(entries) - Len(recs)) : RecsAt(entries, off, recs)

\* 29 + len(key) + len(value), summed over the batch.
RECURSIVE BatchSize(_, _)
BatchSize(ts, i) ==
    IF i > Len(ts) THEN 0
    ELSE 29 + Len(ts[i].Key) + Len(ts[i].Value) + BatchSize(ts, i + 1)

HasSegment(index) == \E i \in 1..Len(segments) : segments[i].index = index

RECURSIVE BytesOf(_, _, _)
\* The bytes of the batches that Set appended to the segment of that index.
BytesOf(h, index, k) ==
    IF k > Len(h) THEN <<>>
    ELSE (IF h[k].index = index THEN h[k].bytes ELSE <<>>) \o BytesOf(h, index, k + 1)

\* C1: durability across reopen.  On a WAL that Open has just produced (no Set
\* since), ReadConverted of the index of the segment that a Set, which returned
\* nil before the Close, appended its batch to returns, without error, a
\* sequence of entries that holds the records of the batch contiguously and in
\* batch order, whatever the WAL did between the Set and the Close, the sweeps
\* of its retention loop included.
C1_DurableAcrossReopen ==
    (ret.op = "ReadConverted" /\ fresh) =>
        \A k \in 1..Len(hist) :
            (hist[k].closed /\ hist[k].index = ret.arg) =>
                /\ ~ret.err
                /\ ~ret.panic
                /\ ContainsRecs(ret.out, hist[k].recs)

\* C2: Set appends to the existing tail: when Set returns nil on an opened WAL
\* whose tail segment exists, the number of segments and lastIndex are
\* unchanged and the size of the tail segment has grown by the size of the
\* batch.
C2_SetAppendsToTail ==
    [][(phase = "open" /\ ret'.op = "Set" /\ ~ret'.err /\ HasSegment(lastIndex)) =>
          /\ Len(segments') = Len(segments)
          /\ lastIndex' = lastIndex
          /\ \E i \in 1..Len(segments) :
                /\ segments[i].index = lastIndex
                /\ segments'[i].size = segments[i].size + BatchSize(ret'.arg, 1)]_vars

\* C3: after a completed Open or rollover exactly one Segment of wal.segments
\* has a path that ends in _END.wal.
C3_OneTailInSegments ==
    phase = "open" => Cardinality({i \in 1..Len(segments) : segments[i].path.end}) = 1

\* C4: after every completed operation on an opened WAL the directory holds
\* exactly one file whose name ends in _END.wal.
C4_OneTailOnDisk ==
    phase = "open" => Cardinality({n \in DOMAIN files : n.end}) = 1

\* C5: wal.segments is strictly increasing by index.
C5_MonotoneIndices ==
    \A i, j \in 1..Len(segments) : i < j => segments[i].index < segments[j].index

\* C6: Open of a freshly constructed WAL over an empty directory creates
\* 00000000000000000000_END.wal of size 0 and leaves one segment, of index 0,
\* and lastIndex = 0.
C6_FreshOpen ==
    [][(phase = "new" /\ DOMAIN files = {} /\ ret'.op = "Open") =>
          /\ DOMAIN files' = {TailName(0)}
          /\ files'[TailName(0)] = <<>>
          /\ Len(segments') = 1
          /\ segments'[1].index = 0
          /\ lastIndex' = 0]_vars

\* C7: Read of an index below lastIndex that is present in wal.segments returns
\* the bytes of the batches that were appended to that segment.
C7_ReadSealed ==
    [][(phase = "open" /\ ret'.op = "Read" /\ ret'.arg < lastIndex /\ HasSegment(ret'.arg)) =>
          /\ ~ret'.err
          /\ ret'.out = BytesOf(hist, ret'.arg, 1)]_vars

\* C8: Read or ReadConverted of an index below lastIndex that is not present in
\* wal.segments returns an error and no bytes.
C8_NotFound ==
    [][(phase = "open" /\ ret'.op \in {"Read", "ReadConverted"}
            /\ ret'.arg < lastIndex /\ ~HasSegment(ret'.arg)) =>
          /\ ret'.err
          /\ ret'.out = <<>>]_vars

\* C9: on an opened WAL, Read of an index at or beyond lastIndex returns the
\* bytes of the tail file and no error.
C9_ReadAtOrBeyondTail ==
    [][(phase = "open" /\ ret'.op = "Read" /\ ret'.arg >= lastIndex) =>
          /\ ~ret'.err
          /\ tail.name \in DOMAIN files
          /\ ret'.out = files[tail.name]]_vars

\* C10: every step that changes wal.segments, wal.lastIndex or wal.tail is taken
\* by the goroutine that holds wal.mu, and while the retention sweep holds the
\* mutex between two of its steps no other goroutine takes a step.
C10_MutexDiscipline ==
    [][/\ (segments' # segments \/ lastIndex' # lastIndex \/ tail' # tail) =>
              \E p \in Procs : mu = p /\ pc'[p] # pc[p]
       /\ (mu = "gc" /\ mu' = "gc") => \A p \in Procs \ {"gc"} : pc'[p] = pc[p]]_vars

\* The file that holds the records of a segment: the file at its path, or,
\* once the segment has been sealed, the file without the _END marker.
SegmentFile(s) == IF s.path \in DOMAIN files THEN s.path ELSE RegularPath(s.path)

\* C11: concurrent Set calls leave what some serial order of them leaves: once
\* no Set is in progress, the file of every segment holds exactly the batches
\* that were added to the segment's shadow, each contiguous and in the order
\* in which the shadow received them.
C11_ConcurrentSetOrdering ==
    (phase = "open" /\ \A p \in Setters : pc[p] \in {"idle", "off"}) =>
        \A i \in 1..Len(segments) :
            SegmentFile(segments[i]) \in DOMAIN files =>
                files[SegmentFile(segments[i])] = segments[i].data

\* C12: no partial success.  When the durable append of Update fails, the step
\* that takes the error leaves the shadow and the size of every segment, in
\* wal.segments or not, as they were, and the Set that called Update returns
\* the error, again without touching them.  A panic of the sweep can end the
\* program before that return; it touches no shadow and no size either.
C12_NoPartialSuccess ==
    [][\A p \in Setters :
          /\ (pc[p] = "update" /\ pc'[p] = "update_err") =>
                heap' = heap /\ segments' = segments
          /\ (pc[p] = "update_err" /\ pc'[p] # "update_err") =>
                /\ heap' = heap /\ segments' = segments
                /\ pc'[p] = "idle" => (ret'.op = "Set" /\ ret'.err)]_vars

\* A Set whose durable append has failed, its target segment with the empty
\* shadow and the size 0 that newSegment gave it.
C12_Witness ==
    \E p \in Setters :
        /\ pc[p] = "update_err"
        /\ tail.closed
        /\ loc[p].seg \in 1..Len(heap.obj)
        /\ heap.obj[loc[p].seg].data = <<>>
        /\ heap.obj[loc[p].seg].size = 0

RECURSIVE CorruptFrom(_, _)
\* The byte stream is corrupt at the start of some record: fewer than 29 bytes
\* remain, or fewer than 29 + KeySize + ValueSize, or the CRC field differs
\* from CRC-32 of the value bytes.
CorruptFrom(data, i) ==
    IF i >= Len(data) THEN FALSE
    ELSE IF Len(data) - i < 29 THEN TRUE
    ELSE LET key_size   == Uint64(Slice(data, i + 13, i + 21))
             value_size == Uint64(Slice(data, i + 21, i + 29))
         IN  IF \/ ~Below31(key_size) \/ Number(key_size) > Len(data)
                \/ ~Below31(value_size) \/ Number(value_size) > Len(data)
             THEN TRUE
             ELSE IF Len(data) - i < 29 + Number(key_size) + Number(value_size) THEN TRUE
             ELSE IF Slice(data, i, i + 4)
                        # CRC32(Slice(data, i + 29 + Number(key_size),
                                      i + 29 + Number(key_size) + Number(value_size)))
                  THEN TRUE
                  ELSE CorruptFrom(data, i + 29 + Number(key_size) + Number(value_size))

\* C13: corrupt input is reported.  Whenever the bytes handed to convert are
\* corrupt at the start of some record, the decoder returns an error, with no
\* entries and without crashing.
C13_CorruptReported ==
    (ret.op = "convert" /\ CorruptFrom(Bytes(ret.arg), 0)) =>
        /\ ret.err
        /\ ~ret.panic
        /\ ret.out = <<>>

\* C14: stream round-trip.  Whenever the bytes handed to convert are the
\* concatenation of Process(r_1) .. Process(r_n), convert returns exactly n
\* entries, the k-th with the key, the value and the deleted flag of r_k and
\* with Crc = CRC-32 of r_k's value.
C14_StreamRoundTrip ==
    ret.op = "convert" =>
        \A recs \in RecSeqs, sec \in Times :
            Bytes(ret.arg) = EncodeAll(recs, sec, 1) =>
                /\ ~ret.err /\ ~ret.panic
                /\ Len(ret.out) = Len(recs)
                /\ RecsAt(ret.out, 0, recs)
                /\ \A k \in 1..Len(recs) : ret.out[k].Crc = CRC32(recs[k].Value)

\* convert has decoded the stream of {"a","1",false} and the record with the
\* empty key and the empty value into two entries.
C14_Witness ==
    /\ ret.op = "convert" /\ ~ret.panic
    /\ \E sec \in Times : Bytes(ret.arg) = EncodeAll(<<RecA, RecE>>, sec, 1)
    /\ Len(ret.out) = 2
    /\ ret.out[1].Key = RecA.Key /\ ret.out[1].Value = RecA.Value
    /\ ret.out[2].Key = <<>> /\ ret.out[2].Value = <<>> /\ ret.out[2].Deleted

\* C15: size coherence.  On an opened WAL every segment whose shadow holds
\* bytes (loaded by Open, or written by Set after a rollover created it) has
\* a file at its path, and size = the length of that file = the length of the
\* shadow.
C15_SizeCoherence ==
    phase = "open" =>
        \A i \in 1..Len(segments) :
            segments[i].data # <<>> =>
                /\ segments[i].path \in DOMAIN files
                /\ segments[i].size = Len(files[segments[i].path])
                /\ segments[i].size = Len(segments[i].data)

\* C16: retention cancellation.  Once the context is cancelled the retention
\* goroutine eventually exits (it returns from clean; a panic of its sweep is
\* no exit), and once it has exited it stays exited and never takes the mutex
\* again, so no further sweep runs.
C16_RetentionCancellation ==
    /\ (ctx = "cancelled") ~> (pc["gc"] = "exited")
    /\ [][pc["gc"] = "exited" => (pc'["gc"] = "exited" /\ mu' # "gc")]_vars

\* The highest index among the files of a non-empty directory.
HighestIndex(fs) ==
    CHOOSE m \in {convertIndex(n.stem) : n \in DOMAIN fs} :
        \A n \in DOMAIN fs : convertIndex(n.stem) <= m

\* C17: Open without a tail marker.  When Open runs on a directory that holds
\* sealed files and no _END.wal file, lastIndex after the walk (before
\* setupLastSegment) is the highest index among the discovered segments.
C17_OpenWithoutTailMarker ==
    [][(phase = "new" /\ ret'.op = "Open"
            /\ DOMAIN files # {} /\ \A n \in DOMAIN files : ~n.end) =>
          WalkFrom(W, SortedNames(DOMAIN files), 1).lastIndex = HighestIndex(files)]_vars

\* C18: lastIndex names the tail.  On an opened WAL the last element of
\* wal.segments has index lastIndex and its path is the file of the tail
\* handle.
C18_LastIndexNamesTail ==
    phase = "open" =>
        /\ Len(segments) > 0
        /\ segments[Len(segments)].index = lastIndex
        /\ segments[Len(segments)].path = tail.name

Min(a, b) == IF a <= b THEN a ELSE b

\* C19: retention sweep result.  One cleanLog leaves exactly the former first
\* min(n, lowMark) entries of wal.segments, in order, and of every former
\* entry at position >= lowMark the file that held its records (at its path,
\* or at the path without the _END marker once sealed) is gone.
C19_SweepResult ==
    [][(phase = "open" /\ ret'.op = "cleanLog") =>
          /\ segments' = SubSeq(segments, 1, Min(Len(segments), lowMark))
          /\ \A i \in (lowMark + 1)..Len(segments) :
                /\ segments[i].path \notin DOMAIN files'
                /\ RegularPath(segments[i].path) \notin DOMAIN files']_vars

RECURSIVE ContinuingSweep(_, _, _)
\* The sweep the claim describes: a removal that fails is passed over and the
\* loop goes on to the entry below; an entry is dropped when its file was
\* removed.
ContinuingSweep(w, i, low) ==
    IF i < low THEN w
    ELSE LET path == w.segments[i + 1].path
         IN  IF path \notin DOMAIN w.files THEN ContinuingSweep(w, i - 1, low)
             ELSE ContinuingSweep([w EXCEPT !.files = Unlink(@, path),
                                            !.segments = removeIndex(@, i).segs],
                                  i - 1, low)

\* C20: retention continues past a failed removal.  One cleanLog leaves the
\* directory and wal.segments as the sweep that goes on after a failed removal
\* leaves them: every entry at position >= lowMark whose file could be removed
\* is removed and dropped, whatever removal failed before it.
C20_SweepContinues ==
    [][(phase = "open" /\ ret'.op = "cleanLog") =>
          /\ files' = ContinuingSweep(W, Len(segments) - 1, lowMark).files
          /\ segments' = ContinuingSweep(W, Len(segments) - 1, lowMark).segments]_vars

\* C21: sealed segments are immutable and never become tail again.  In every
\* step other than a retention sweep, a file <index>.wal of the directory keeps
\* its bytes, and the step does not open a tail on a newly created
\* <index>_END.wal of that same index.
C21_SealedImmutable ==
    [][ret'.op # "cleanLog" =>
          \A n \in DOMAIN files :
              ~n.end =>
                  /\ n \in DOMAIN files' => files'[n] = files[n]
                  /\ ~(/\ tail'.name = [stem |-> n.stem, end |-> TRUE]
                        /\ ~tail'.nil
                        /\ tail'.name \notin DOMAIN files
                        /\ tail'.name \in DOMAIN files')]_vars

\* C22: reads create nothing.  Read and ReadConverted leave wal.segments,
\* wal.lastIndex, the tail handle and the set of files of the directory
\* unchanged, and fail with an error when no segment has index lastIndex.
C22_ReadsCreateNothing ==
    [][(phase = "open" /\ ret'.op \in {"Read", "ReadConverted"}) =>
          /\ segments' = segments
          /\ lastIndex' = lastIndex
          /\ tail' = tail
          /\ DOMAIN files' = DOMAIN files
          /\ ~HasSegment(lastIndex) => ret'.err]_vars

====
